---------------------------- MODULE Spec2Model ----------------------------
(***************************************************************************)
(* EC2 right-sizing scripts: the analysis pipelines                        *)
(* (scripts/analyze_recomend_groq.py, scripts/analyze_recomend_openai.py)  *)
(* and the instance control scripts (scripts/resize_ec2.py,                *)
(* scripts/resize_ec2_override.py, scripts/resize_instance_safe.py,        *)
(* scripts/snapshots_and_save_rollback.py, scripts/rollback_instance.py).  *)
(*                                                                         *)
(* Text.  A Python string is a sequence of symbols.  A family is spelled   *)
(* character by character because the code matches families by prefix      *)
(* (str.startswith); the separator "." is one symbol; a size word          *)
(* ("large") is one symbol because the code only ever compares a whole     *)
(* size token.  None is a value distinct from every string.                *)
(***************************************************************************)
EXTENDS Integers, Sequences, FiniteSets, TLC

\* -------------------------------------------------------------------------
\* Bounds of the model
\* -------------------------------------------------------------------------

\* average CPU utilisation is drawn from 0..MaxCpu (whole percents)
MaxCpu == 55

\* -------------------------------------------------------------------------
\* Python values
\* -------------------------------------------------------------------------

None == <<"<None>">>

Truthy(x) == x # None /\ x # <<>>

Range(s) == {s[i] : i \in DOMAIN s}

T(fam, size) == fam \o <<".", size>>

Whitespace == {" ", "\n"}

RECURSIVE LStrip(_)
LStrip(s) ==
    IF s # <<>> /\ Head(s) \in Whitespace THEN LStrip(Tail(s)) ELSE s

RECURSIVE RStrip(_)
RStrip(s) ==
    IF s # <<>> /\ s[Len(s)] \in Whitespace
    THEN RStrip(SubSeq(s, 1, Len(s) - 1))
    ELSE s

\* str.strip()
Strip(s) == RStrip(LStrip(s))

\* position of the first "." of s, 0 when there is none
FirstDot(s) ==
    IF \E i \in DOMAIN s : s[i] = "."
    THEN CHOOSE i \in DOMAIN s : s[i] = "." /\ \A j \in 1..(i - 1) : s[j] # "."
    ELSE 0

\* str.split('.')
RECURSIVE Split(_)
Split(s) ==
    IF FirstDot(s) = 0
    THEN <<s>>
    ELSE <<SubSeq(s, 1, FirstDot(s) - 1)>>
             \o Split(SubSeq(s, FirstDot(s) + 1, Len(s)))

\* str.startswith
StartsWith(s, p) == Len(p) <= Len(s) /\ SubSeq(s, 1, Len(p)) = p

\* list.index, 1-based; 0 when the element is absent
IndexOf(list, x) ==
    IF \E i \in DOMAIN list : list[i] = x
    THEN CHOOSE i \in DOMAIN list : list[i] = x /\ \A j \in 1..(i - 1) : list[j] # x
    ELSE 0

\* -------------------------------------------------------------------------
\* Size ranking and shortlist
\* -------------------------------------------------------------------------

sizes == << <<"nano">>, <<"micro">>, <<"small">>, <<"medium">>, <<"large">>,
           <<"xlarge">>, <<"2xlarge">>, <<"4xlarge">>, <<"8xlarge">>,
           <<"16xlarge">>, <<"32xlarge">>, <<"48xlarge">> >>

\* _get_size_rank: 0-based index of the size token, -1 on IndexError/ValueError
_get_size_rank(instance_type) ==
    IF Len(Split(instance_type)) < 2
    THEN -1
    ELSE IF IndexOf(sizes, Split(instance_type)[2]) = 0
         THEN -1
         ELSE IndexOf(sizes, Split(instance_type)[2]) - 1

\* size_rank nested in the OpenAI build_instance_shortlist: 999 when unknown
size_rank(t) ==
    IF IndexOf(sizes, Split(t)[2]) = 0
    THEN 999
    ELSE IndexOf(sizes, Split(t)[2]) - 1

compatible_families(current_instance_type) ==
    LET family == Split(current_instance_type)[1] IN
    <<family>>
      \o (IF StartsWith(family, <<"t", "3">>)
          THEN << <<"t", "4", "g">>, <<"t", "3", "a">> >> ELSE <<>>)
      \o (IF StartsWith(family, <<"m", "6">>)
          THEN << <<"m", "5">>, <<"m", "6", "i">>, <<"m", "7", "i">> >> ELSE <<>>)

\* the sort key of an element: <<family position or 99, size rank>>
SortKey(v, cf, t) ==
    << IF IndexOf(cf, Split(t)[1]) # 0 THEN IndexOf(cf, Split(t)[1]) - 1 ELSE 99,
       IF v = "groq" THEN _get_size_rank(t) ELSE size_rank(t) >>

KeyLess(a, b) == a[1] < b[1] \/ (a[1] = b[1] /\ a[2] < b[2])

\* variation: x goes ahead of the elements of equal key
RECURSIVE InsertByKey_BeforeEqual(_, _, _, _)
InsertByKey_BeforeEqual(v, cf, sorted, x) ==
    IF sorted = <<>>
    THEN <<x>>
    ELSE IF ~KeyLess(SortKey(v, cf, Head(sorted)), SortKey(v, cf, x))
         THEN <<x>> \o sorted
         ELSE <<Head(sorted)>> \o InsertByKey_BeforeEqual(v, cf, Tail(sorted), x)

\* insert x behind every element whose key is not greater (stable)
RECURSIVE InsertByKey(_, _, _, _)
InsertByKey(v, cf, sorted, x) ==
    IF sorted = <<>>
    THEN <<x>>
    ELSE IF KeyLess(SortKey(v, cf, x), SortKey(v, cf, Head(sorted)))
         THEN <<x>> \o sorted
         ELSE <<Head(sorted)>> \o InsertByKey(v, cf, Tail(sorted), x)

\* sorted(list, key=...)
RECURSIVE SortedByKey(_, _, _)
SortedByKey(v, cf, list) ==
    IF list = <<>>
    THEN <<>>
    ELSE InsertByKey(v, cf,
                     SortedByKey(v, cf, SubSeq(list, 1, Len(list) - 1)),
                     list[Len(list)])

\* variation: the large size of the current family is always offered
FilterCompatible_AddsCurrentFamily(cf, list) ==
    SelectSeq(list, LAMBDA t : \E i \in DOMAIN cf : StartsWith(t, cf[i]))
      \o << T(cf[1], "large") >>

FilterCompatible(cf, list) ==
    SelectSeq(list, LAMBDA t : \E i \in DOMAIN cf : StartsWith(t, cf[i]))

build_instance_shortlist(v, current_instance_type, valid_types) ==
    SortedByKey(v, compatible_families(current_instance_type),
                FilterCompatible(compatible_families(current_instance_type),
                                 valid_types))

\* variation: a type of the same size counts as a smaller one
can_downgrade_OrEqual(current_instance_type, list) ==
    \E i \in DOMAIN list :
        _get_size_rank(list[i]) <= _get_size_rank(current_instance_type)

\* any(_get_size_rank(t) < _get_size_rank(current) for t in shortlist)
can_downgrade(current_instance_type, list) ==
    \E i \in DOMAIN list :
        _get_size_rank(list[i]) < _get_size_rank(current_instance_type)

\* -------------------------------------------------------------------------
\* Threshold policy and validator
\* -------------------------------------------------------------------------

threshold_decision(v, c) ==
    IF v = "groq"
    THEN (IF c < 10 THEN "downgrade" ELSE IF c > 10 THEN "upgrade" ELSE "retain")
    ELSE (IF c < 30 THEN "downgrade" ELSE IF c > 50 THEN "upgrade" ELSE "retain")

\* variation: a suggestion that begins with a valid type is accepted
validate_instance_type_Prefix(suggested, valid_types) ==
    \E i \in DOMAIN valid_types : StartsWith(suggested, valid_types[i])

validate_instance_type(suggested, valid_types) ==
    \E i \in DOMAIN valid_types : valid_types[i] = suggested


\* -------------------------------------------------------------------------
\* Inputs of an analysis run
\* -------------------------------------------------------------------------

t2 == <<"t", "2">>
t3 == <<"t", "3">>
t3a == <<"t", "3", "a">>

\* what describe_instance_types can list, in the provider's order
Pool == << T(t3, "xlarge"), T(t3a, "large"), T(t2, "micro"),
           T(t3, "metal"), T(t2, "nano"), T(t3, "large") >>

CurrentTypes == {T(t2, "micro"), T(t3, "large")}

\* a candidate universe lists at most MaxUniverse types
MaxUniverse == 3

RECURSIVE SubSeqs(_)
SubSeqs(s) ==
    IF s = <<>>
    THEN {<<>>}
    ELSE LET rest == SubSeqs(Tail(s)) IN
         rest \cup {<<Head(s)>> \o r : r \in rest}

Universes == {u \in SubSeqs(Pool) : Len(u) <= MaxUniverse}

NO_DOWNGRADE_POSSIBLE == <<"NO_DOWNGRADE_POSSIBLE">>

\* message contents the inference service can send back, before .strip()
OracleTexts ==
    Range(Pool)
      \cup { T(t3, "huge"),
             <<>>,
             <<"\n">> \o T(t3, "xlarge") \o <<" ">>,
             T(t3, "xlarge") \o <<" ", "is the next size up">> }

\* a file that does not exist
NoFile == [missing |-> TRUE]

\* -------------------------------------------------------------------------
\* State
\* -------------------------------------------------------------------------

VARIABLES
    variant,                \* "groq" | "openai": which pipeline script runs
    pc,                     \* position of the run in its __main__ block
    instance_type,
    valid_instance_types,
    cpu,
    decision,
    shortlist,
    suggested_type,
    validated,
    recommendation_file,    \* content of resize_recommendation.json
    threshold,              \* history: what threshold_decision returned
    oracle_calls,           \* history: requests sent to the inference service
    oracle_reply,           \* history: what ai_suggest_instance_type returned
    trace,                  \* history: stages of the run, in order
    script,                 \* instance control script that is running
    rpc,                    \* its position
    runs,                   \* scripts started so far
    inst_type,              \* provider: InstanceType of the instance
    inst_state,             \* provider: State.Name of the instance
    block_device_mappings,  \* provider: BlockDeviceMappings of the instance
    snapshots,              \* provider: snapshots[k] = volume of <<"snap", k>>
    created,                \* provider: created[k] = snapshot of <<"new", k>>
    deleted,                \* provider: deleted volumes and snapshots
    rollback_file,          \* content of rollback.json
    new_type,               \* resize_instance: the target type
    current_type,           \* resize_instance: type read by describe_instances
    state,                  \* resize_instance: state read by describe_instances
    rb,                     \* locals of the snapshot and rollback scripts
    calls,                  \* history: provider calls and file writes of the run
    log,                    \* history: the scripts run, with their outcome
    desired_instance_type,  \* validate_request: the type the input file asks for
    ai_response,            \* validate_request: what the oracle answered
    validation_file,        \* content of resize_validation.json
    cache_file,             \* content of instance_types_cache.json
    clock,                  \* wall clock, in half hours
    fetcher,                \* fetch_available_instance_types: locals of each call
    provider_fetches,       \* history: describe_instance_types paginations
    worker,                 \* concurrent analysis runs: position and record
    returned                \* history: what the calls of a function returned

avars == <<variant, pc, instance_type, valid_instance_types, cpu, decision,
           shortlist, suggested_type, validated, recommendation_file,
           threshold, oracle_calls, oracle_reply, trace>>

rvars == <<script, rpc, runs, inst_type, inst_state, block_device_mappings,
           snapshots, created, deleted, rollback_file, new_type, current_type,
           state, rb, calls, log>>

xvars == <<desired_instance_type, ai_response, validation_file, cache_file,
           clock, fetcher, provider_fetches, worker, returned>>

vars == <<avars, rvars, xvars>>

\* the processes that run side by side
Runs == {1, 2}

\* locals of a call of fetch_available_instance_types that has not begun
FetcherIdle ==
    [ pc |-> "idle",
      key |-> "",
      now |-> 0,
      found |-> NoFile,
      fetched |-> FALSE,
      valid_types |-> <<>>,
      cache |-> NoFile,
      wrote |-> NoFile,
      result |-> None ]

WorkerIdle == [pc |-> "idle", result |-> NoFile]

\* nothing of the compatibility workflow, the cache or the fleet has begun
XIdle ==
    /\ desired_instance_type = None
    /\ ai_response = None
    /\ validation_file = NoFile
    /\ cache_file = NoFile
    /\ clock = 0
    /\ fetcher = [p \in Runs |-> FetcherIdle]
    /\ provider_fetches = <<>>
    /\ worker = [p \in Runs |-> WorkerIdle]
    /\ returned = <<>>

\* variation: action_required follows the presence of a suggestion
ResizeRecommendation_ActionOnSuggestion(it, c, d, s, v) ==
    [ instance_id |-> "i-1",
      region |-> "r-1",
      current_instance_type |-> it,
      average_cpu_usage_percent |-> c,
      decision |-> d,
      ai_suggested_instance_type |-> IF Truthy(s) THEN s ELSE None,
      validated |-> v,
      action_required |-> Truthy(s) ]

\* the dictionary dumped to resize_recommendation.json
ResizeRecommendation(it, c, d, s, v) ==
    [ instance_id |-> "i-1",
      region |-> "r-1",
      current_instance_type |-> it,
      average_cpu_usage_percent |-> c,
      decision |-> d,
      ai_suggested_instance_type |-> IF Truthy(s) THEN s ELSE None,
      validated |-> v,
      action_required |-> v ]

NoVolume == <<"none", 0>>

NoLocals ==
    [ original_instance_type |-> None,
      snapshot_ids |-> <<>>,
      old_volume_id |-> NoVolume,
      device_name |-> "",
      new_volume_id |-> NoVolume ]

RootDeviceName == "/dev/xvda"

RootMapping == [DeviceName |-> RootDeviceName, VolumeId |-> <<"vol", 1>>]

DataMapping == [DeviceName |-> "/dev/sdf", VolumeId |-> <<"vol", 2>>]

\* no instance control script has run and none is running
RIdle ==
    /\ script = "none"
    /\ rpc = "idle"
    /\ runs = 0
    /\ inst_state \in {"running", "stopped"}
    /\ block_device_mappings \in {<<RootMapping>>, <<DataMapping, RootMapping>>}
    /\ snapshots = <<>>
    /\ created = <<>>
    /\ deleted = {}
    /\ rollback_file = NoFile
    /\ new_type = None
    /\ current_type = None
    /\ state = "unset"
    /\ rb = NoLocals
    /\ calls = <<>>
    /\ log = <<>>

AInit ==
    /\ variant \in {"groq", "openai"}
    /\ inst_type = T(t3, "large")
    /\ inst_state = "running"
    /\ block_device_mappings = <<RootMapping>>
    /\ RIdle
    /\ XIdle
    /\ pc = "start"
    /\ instance_type = None
    /\ valid_instance_types = <<>>
    /\ cpu = 0
    /\ decision = "unset"
    /\ shortlist = <<>>
    /\ suggested_type = None
    /\ validated = FALSE
    /\ recommendation_file = NoFile
    /\ threshold = "unset"
    /\ oracle_calls = 0
    /\ oracle_reply = None
    /\ trace = <<>>

\* -------------------------------------------------------------------------
\* The analysis run (__main__ of both pipeline scripts)
\* -------------------------------------------------------------------------

FetchInstanceDetails ==
    /\ pc = "start"
    /\ instance_type' \in CurrentTypes
    /\ pc' = "details"
    /\ UNCHANGED <<rvars, xvars>>
    /\ UNCHANGED <<variant, valid_instance_types, cpu, decision, shortlist,
                   suggested_type, validated, recommendation_file, threshold,
                   oracle_calls, oracle_reply, trace>>

FetchAvailableInstanceTypes ==
    /\ pc = "details"
    /\ valid_instance_types' \in Universes
    /\ pc' = "universe"
    /\ UNCHANGED <<rvars, xvars>>
    /\ UNCHANGED <<variant, instance_type, cpu, decision, shortlist,
                   suggested_type, validated, recommendation_file, threshold,
                   oracle_calls, oracle_reply, trace>>

FetchMetrics ==
    /\ pc = "universe"
    /\ cpu' \in 0..MaxCpu
    /\ pc' = "metrics"
    /\ UNCHANGED <<rvars, xvars>>
    /\ UNCHANGED <<variant, instance_type, valid_instance_types, decision,
                   shortlist, suggested_type, validated, recommendation_file,
                   threshold, oracle_calls, oracle_reply, trace>>

ThresholdDecision ==
    /\ pc = "metrics"
    /\ decision' = threshold_decision(variant, cpu)
    /\ threshold' = decision'
    /\ suggested_type' = None
    /\ validated' = FALSE
    /\ trace' = Append(trace, "threshold_evaluated")
    /\ pc' = "threshold"
    /\ UNCHANGED <<rvars, xvars>>
    /\ UNCHANGED <<variant, instance_type, valid_instance_types, cpu,
                   shortlist, recommendation_file, oracle_calls, oracle_reply>>

\* variation: the oracle function is called before the feasibility test,
\* so an infeasible downgrade is retained with its suggestion
DowngradeGuard_KeepsSuggestion ==
    /\ pc = "threshold"
    /\ variant = "groq"
    /\ decision = "downgrade"
    /\ shortlist' = build_instance_shortlist(variant, instance_type,
                                             valid_instance_types)
    /\ trace' = Append(trace, "feasibility_checked")
    /\ IF can_downgrade(instance_type, shortlist')
       THEN /\ pc' = "ask"
            /\ UNCHANGED <<decision, suggested_type>>
       ELSE /\ pc' = "record"
            /\ decision' = "retain"
            /\ suggested_type' = NO_DOWNGRADE_POSSIBLE
    /\ UNCHANGED <<rvars, xvars>>
    /\ UNCHANGED <<variant, instance_type, valid_instance_types, cpu,
                   validated, recommendation_file, threshold,
                   oracle_calls, oracle_reply>>

\* groq, decision == "downgrade": shortlist, can_downgrade, maybe retain
DowngradeGuard ==
    /\ pc = "threshold"
    /\ variant = "groq"
    /\ decision = "downgrade"
    /\ shortlist' = build_instance_shortlist(variant, instance_type,
                                             valid_instance_types)
    /\ trace' = Append(trace, "feasibility_checked")
    /\ IF can_downgrade(instance_type, shortlist')
       THEN /\ pc' = "ask"
            /\ UNCHANGED decision
       ELSE /\ pc' = "record"
            /\ decision' = "retain"
    /\ UNCHANGED <<rvars, xvars>>
    /\ UNCHANGED <<variant, instance_type, valid_instance_types, cpu,
                   suggested_type, validated, recommendation_file, threshold,
                   oracle_calls, oracle_reply>>

\* groq upgrade, and openai upgrade or downgrade: shortlist, then the oracle
BuildShortlist ==
    /\ pc = "threshold"
    /\ \/ variant = "groq" /\ decision = "upgrade"
       \/ variant = "openai" /\ decision \in {"upgrade", "downgrade"}
    /\ shortlist' = build_instance_shortlist(variant, instance_type,
                                             valid_instance_types)
    /\ pc' = "ask"
    /\ UNCHANGED <<rvars, xvars>>
    /\ UNCHANGED <<variant, instance_type, valid_instance_types, cpu,
                   decision, suggested_type, validated, recommendation_file,
                   threshold, oracle_calls, oracle_reply, trace>>

NoResize ==
    /\ pc = "threshold"
    /\ decision = "retain"
    /\ pc' = "record"
    /\ UNCHANGED <<rvars, xvars>>
    /\ UNCHANGED <<variant, instance_type, valid_instance_types, cpu,
                   decision, shortlist, suggested_type, validated,
                   recommendation_file, threshold, oracle_calls,
                   oracle_reply, trace>>

\* groq ai_suggest_instance_type returns before any request
NoRequest ==
    /\ variant = "groq"
    /\ decision = "downgrade"
    /\ ~can_downgrade(instance_type, shortlist)

\* ai_suggest_instance_type returns the stripped message content
AiSuggestReturns ==
    /\ pc = "ask"
    /\ \E raw \in OracleTexts :
          suggested_type' = IF NoRequest THEN NO_DOWNGRADE_POSSIBLE
                            ELSE Strip(raw)
    /\ oracle_calls' = IF NoRequest THEN oracle_calls ELSE oracle_calls + 1
    /\ oracle_reply' = suggested_type'
    /\ trace' = Append(trace, "oracle_queried")
    /\ pc' = "suggested"
    /\ UNCHANGED <<rvars, xvars>>
    /\ UNCHANGED <<variant, instance_type, valid_instance_types, cpu,
                   decision, shortlist, validated, recommendation_file,
                   threshold>>

\* openai: a response body without 'choices' makes the function return None
AiSuggestNoChoices ==
    /\ pc = "ask"
    /\ variant = "openai"
    /\ suggested_type' = None
    /\ oracle_calls' = oracle_calls + 1
    /\ oracle_reply' = None
    /\ trace' = Append(trace, "oracle_queried")
    /\ pc' = "suggested"
    /\ UNCHANGED <<rvars, xvars>>
    /\ UNCHANGED <<variant, instance_type, valid_instance_types, cpu,
                   decision, shortlist, validated, recommendation_file,
                   threshold>>

\* the request raises (API error, timeout, body that is not JSON, content
\* None): nothing in either script catches it, the process ends
AiSuggestRaises ==
    /\ pc = "ask"
    /\ ~NoRequest
    /\ oracle_calls' = oracle_calls + 1
    /\ trace' = Append(trace, "oracle_queried")
    /\ pc' = "crashed"
    /\ UNCHANGED <<rvars, xvars>>
    /\ UNCHANGED <<variant, instance_type, valid_instance_types, cpu,
                   decision, shortlist, suggested_type, validated,
                   recommendation_file, threshold, oracle_reply>>

\* variation: a rejected suggestion turns the decision into retain
Validate_RetainOnReject ==
    /\ pc = "suggested"
    /\ validated' = validate_instance_type(suggested_type,
                                           valid_instance_types)
    /\ decision' = IF validated' THEN decision ELSE "retain"
    /\ pc' = "record"
    /\ UNCHANGED <<rvars, xvars>>
    /\ UNCHANGED <<variant, instance_type, valid_instance_types, cpu,
                   shortlist, suggested_type, recommendation_file,
                   threshold, oracle_calls, oracle_reply, trace>>

Validate ==
    /\ pc = "suggested"
    /\ validated' = validate_instance_type(suggested_type,
                                           valid_instance_types)
    /\ pc' = "record"
    /\ UNCHANGED <<rvars, xvars>>
    /\ UNCHANGED <<variant, instance_type, valid_instance_types, cpu,
                   decision, shortlist, suggested_type, recommendation_file,
                   threshold, oracle_calls, oracle_reply, trace>>

WriteResult ==
    /\ pc = "record"
    /\ recommendation_file' =
          ResizeRecommendation(instance_type, cpu, decision, suggested_type,
                               validated)
    /\ trace' = Append(trace, "written")
    /\ pc' = "done"
    /\ UNCHANGED <<rvars, xvars>>
    /\ UNCHANGED <<variant, instance_type, valid_instance_types, cpu,
                   decision, shortlist, suggested_type, validated, threshold,
                   oracle_calls, oracle_reply>>

ANext ==
    \/ FetchInstanceDetails
    \/ FetchAvailableInstanceTypes
    \/ FetchMetrics
    \/ ThresholdDecision
    \/ DowngradeGuard
    \/ BuildShortlist
    \/ NoResize
    \/ AiSuggestReturns
    \/ AiSuggestNoChoices
    \/ AiSuggestRaises
    \/ Validate
    \/ WriteResult

SpecAnalysis == AInit /\ [][ANext]_vars


\* -------------------------------------------------------------------------
\* Instance control scripts: inputs
\* -------------------------------------------------------------------------

\* at most MaxRuns scripts are run one after the other
MaxRuns == 3

\* what describe_instance_types lists for the instance's architecture
SupportedTypes == << T(t3, "xlarge"), T(t2, "micro"), T(t3, "large") >>

\* desired_instance_type of input.json
DesiredTypes == {T(t3, "xlarge"), T(t3, "large"), T(t3a, "large")}

\* suggestions an analysis run can have recorded for the instance; the
\* scripts treat a name the provider does not know like t3a.large, which
\* it knows and does not offer for the instance
Suggestions == {T(t3, "xlarge"), T(t3, "large"), T(t3a, "large")}

\* resize_recommendation.json as an analysis run (openai thresholds) of an
\* instance of type it leaves it, the universe being SupportedTypes
RecommendationFiles(it) ==
    {ResizeRecommendation(it, 40, "retain", None, FALSE)}
      \cup {ResizeRecommendation(it, 55, "upgrade", s,
                                 validate_instance_type(s, SupportedTypes)) :
               s \in Suggestions}

ResizeScripts == {"resize_ec2", "resize_ec2_override", "resize_instance_safe"}

RInit ==
    /\ variant = "openai"
    /\ pc = "done"
    /\ instance_type \in CurrentTypes
    /\ valid_instance_types = SupportedTypes
    /\ cpu = 0
    /\ decision = "unset"
    /\ shortlist = <<>>
    /\ suggested_type = None
    /\ validated = FALSE
    /\ recommendation_file \in RecommendationFiles(instance_type)
    /\ threshold = "unset"
    /\ oracle_calls = 0
    /\ oracle_reply = None
    /\ trace = <<>>
    /\ inst_type = instance_type
    /\ RIdle
    /\ XIdle

\* -------------------------------------------------------------------------
\* Instance control scripts: shared steps
\* -------------------------------------------------------------------------

\* get_root_volume_id: the mapping of the root device, if any
get_root_volume_id(mappings) ==
    IF \E i \in DOMAIN mappings : mappings[i].DeviceName = RootDeviceName
    THEN LET i == CHOOSE k \in DOMAIN mappings :
                     /\ mappings[k].DeviceName = RootDeviceName
                     /\ \A j \in 1..(k - 1) :
                           mappings[j].DeviceName # RootDeviceName
         IN  <<mappings[i].VolumeId, mappings[i].DeviceName>>
    ELSE <<NoVolume, "">>

\* a script starts: its entry of the log is opened
Begin(s) ==
    /\ script = "none"
    /\ runs < MaxRuns
    /\ script' = s
    /\ runs' = runs + 1
    /\ calls' = <<>>
    /\ log' = Append(log, [script |-> s, ended |-> FALSE, exit |-> 0,
                           before |-> inst_type,
                           rollback_before |-> rollback_file,
                           root_before |->
                               get_root_volume_id(block_device_mappings)[1]])

\* the process ends with exit status code
Finish(code) ==
    /\ script' = "none"
    /\ rpc' = "idle"
    /\ log' = [log EXCEPT ![Len(log)].ended = TRUE,
                          ![Len(log)].exit = code]

\* -------------------------------------------------------------------------
\* resize_ec2.py, resize_ec2_override.py, resize_instance_safe.py
\* -------------------------------------------------------------------------

\* __main__ of resize_ec2.py: the target is the recorded suggestion
StartResizeEc2 ==
    /\ Begin("resize_ec2")
    /\ new_type' = recommendation_file.ai_suggested_instance_type
    /\ rpc' = "describe"
    /\ UNCHANGED <<avars, xvars>>
    /\ UNCHANGED <<inst_type, inst_state, block_device_mappings, snapshots,
                   created, deleted, rollback_file, current_type, state, rb>>

\* __main__ of the other two: the target is input.json's desired type
StartResizeInput ==
    /\ \E s \in {"resize_ec2_override", "resize_instance_safe"} : Begin(s)
    /\ new_type' \in DesiredTypes
    /\ rpc' = "describe"
    /\ UNCHANGED <<avars, xvars>>
    /\ UNCHANGED <<inst_type, inst_state, block_device_mappings, snapshots,
                   created, deleted, rollback_file, current_type, state, rb>>

DescribeInstance ==
    /\ script \in ResizeScripts
    /\ rpc = "describe"
    /\ current_type' = inst_type
    /\ state' = inst_state
    /\ rpc' = "check"
    /\ UNCHANGED <<avars, xvars>>
    /\ UNCHANGED <<script, runs, inst_type, inst_state, block_device_mappings,
                   snapshots, created, deleted, rollback_file, new_type, rb,
                   calls, log>>

check_instance_type_supported(t) ==
    \E i \in DOMAIN Pool :
        Pool[i] = t /\ \E j \in DOMAIN SupportedTypes : SupportedTypes[j] = t

\* resize_ec2 and override: exit 0 when the type is already the target;
\* safe: exit 1 when the target is not supported for the architecture
CheckTarget ==
    /\ script \in ResizeScripts
    /\ rpc = "check"
    /\ IF script = "resize_instance_safe"
       THEN IF ~check_instance_type_supported(new_type)
            THEN Finish(1)
            ELSE rpc' = "dryrun" /\ UNCHANGED <<script, log>>
       ELSE IF current_type = new_type
            THEN Finish(0)
            ELSE rpc' = "dryrun" /\ UNCHANGED <<script, log>>
    /\ UNCHANGED <<avars, xvars>>
    /\ UNCHANGED <<runs, inst_type, inst_state, block_device_mappings,
                   snapshots, created, deleted, rollback_file, new_type,
                   current_type, state, rb, calls>>

\* the dry run raises the ClientError DryRunOperation: permission granted.
\* A target of None never gets this far: the client rejects the parameter.
DryRunSucceeds ==
    /\ script \in ResizeScripts
    /\ rpc = "dryrun"
    /\ new_type # None
    /\ calls' = Append(calls, "dry_run_passed")
    /\ rpc' = "stop"
    /\ UNCHANGED <<avars, xvars>>
    /\ UNCHANGED <<script, runs, inst_type, inst_state, block_device_mappings,
                   snapshots, created, deleted, rollback_file, new_type,
                   current_type, state, rb, log>>

\* variation: the failure of the dry run is reported and the run goes on
DryRunFails_Proceeds ==
    /\ script \in ResizeScripts
    /\ rpc = "dryrun"
    /\ calls' = Append(calls, "dry_run_failed")
    /\ rpc' = "stop"
    /\ UNCHANGED <<avars, xvars>>
    /\ UNCHANGED <<script, runs, inst_type, inst_state, block_device_mappings,
                   snapshots, created, deleted, rollback_file, new_type,
                   current_type, state, rb, log>>

\* the dry run raises anything else: sys.exit(1), or an uncaught exception
DryRunFails ==
    /\ script \in ResizeScripts
    /\ rpc = "dryrun"
    /\ calls' = Append(calls, "dry_run_failed")
    /\ Finish(1)
    /\ UNCHANGED <<avars, xvars>>
    /\ UNCHANGED <<runs, inst_type, inst_state, block_device_mappings,
                   snapshots, created, deleted, rollback_file, new_type,
                   current_type, state, rb>>

\* variation: an instance found stopped goes straight to the modify call
StopIfRunning_SkipsSave ==
    /\ script \in ResizeScripts
    /\ rpc = "stop"
    /\ IF state # "stopped"
       THEN /\ inst_state' = "stopped"
            /\ calls' = Append(calls, "stop")
            /\ rpc' = "save"
       ELSE /\ UNCHANGED <<inst_state, calls>>
            /\ rpc' = "modify"
    /\ UNCHANGED <<avars, xvars>>
    /\ UNCHANGED <<script, runs, inst_type, block_device_mappings, snapshots,
                   created, deleted, rollback_file, new_type, current_type,
                   state, rb, log>>

StopIfRunning ==
    /\ script \in ResizeScripts
    /\ rpc = "stop"
    /\ IF state # "stopped"
       THEN /\ inst_state' = "stopped"
            /\ calls' = Append(calls, "stop")
       ELSE UNCHANGED <<inst_state, calls>>
    /\ rpc' = "save"
    /\ UNCHANGED <<avars, xvars>>
    /\ UNCHANGED <<script, runs, inst_type, block_device_mappings, snapshots,
                   created, deleted, rollback_file, new_type, current_type,
                   state, rb, log>>

SaveRollback ==
    /\ script \in ResizeScripts
    /\ rpc = "save"
    /\ rollback_file' = [previous_instance_type |-> current_type]
    /\ calls' = Append(calls, "write_rollback")
    /\ rpc' = "modify"
    /\ UNCHANGED <<avars, xvars>>
    /\ UNCHANGED <<script, runs, inst_type, inst_state, block_device_mappings,
                   snapshots, created, deleted, new_type, current_type, state,
                   rb, log>>

\* the provider accepts only a type it supports for the instance
ModifyType ==
    /\ script \in ResizeScripts
    /\ rpc = "modify"
    /\ check_instance_type_supported(new_type)
    /\ inst_type' = new_type
    /\ calls' = Append(calls, "modify")
    /\ rpc' = "start"
    /\ UNCHANGED <<avars, xvars>>
    /\ UNCHANGED <<script, runs, inst_state, block_device_mappings, snapshots,
                   created, deleted, rollback_file, new_type, current_type,
                   state, rb, log>>

\* modify_instance_attribute raises: uncaught, the process ends
ModifyFails ==
    /\ script \in ResizeScripts
    /\ rpc = "modify"
    /\ calls' = Append(calls, "modify")
    /\ Finish(1)
    /\ UNCHANGED <<avars, xvars>>
    /\ UNCHANGED <<runs, inst_type, inst_state, block_device_mappings,
                   snapshots, created, deleted, rollback_file, new_type,
                   current_type, state, rb>>

StartInstance ==
    /\ script \in ResizeScripts
    /\ rpc = "start"
    /\ inst_state' = "running"
    /\ calls' = Append(calls, "start")
    /\ Finish(0)
    /\ UNCHANGED <<avars, xvars>>
    /\ UNCHANGED <<runs, inst_type, block_device_mappings, snapshots, created,
                   deleted, rollback_file, new_type, current_type, state, rb>>

\* -------------------------------------------------------------------------
\* snapshots_and_save_rollback.py
\* -------------------------------------------------------------------------

StartSnapshots ==
    /\ Begin("snapshots")
    /\ rpc' = "snapshot"
    /\ rb' = NoLocals
    /\ UNCHANGED <<avars, xvars>>
    /\ UNCHANGED <<inst_type, inst_state, block_device_mappings, snapshots,
                   created, deleted, rollback_file, new_type, current_type,
                   state>>

\* one snapshot per attached volume, in the order of the mappings
CreateSnapshots ==
    /\ script = "snapshots"
    /\ rpc = "snapshot"
    /\ snapshots' = snapshots
                      \o [i \in DOMAIN block_device_mappings |->
                            block_device_mappings[i].VolumeId]
    /\ rb' = [rb EXCEPT
                !.original_instance_type = inst_type,
                !.snapshot_ids = [i \in DOMAIN block_device_mappings |->
                                    <<"snap", Len(snapshots) + i>>]]
    /\ calls' = Append(calls, "create_snapshot")
    /\ rpc' = "save"
    /\ UNCHANGED <<avars, xvars>>
    /\ UNCHANGED <<script, runs, inst_type, inst_state, block_device_mappings,
                   created, deleted, rollback_file, new_type, current_type,
                   state, log>>

SaveSnapshotRollback ==
    /\ script = "snapshots"
    /\ rpc = "save"
    /\ rollback_file' = [ instance_id |-> "i-1",
                          region |-> "r-1",
                          original_instance_type |-> rb.original_instance_type,
                          snapshot_ids |-> rb.snapshot_ids ]
    /\ calls' = Append(calls, "write_rollback")
    /\ Finish(0)
    /\ UNCHANGED <<avars, xvars>>
    /\ UNCHANGED <<runs, inst_type, inst_state, block_device_mappings,
                   snapshots, created, deleted, new_type, current_type, state,
                   rb>>

\* -------------------------------------------------------------------------
\* rollback_instance.py
\* -------------------------------------------------------------------------

\* all([instance_id, region, original_instance_type, snapshot_ids]) over
\* data.get(...): a missing key reads as None, an empty list is false
RequiredData(data) ==
    /\ {"instance_id", "region", "original_instance_type", "snapshot_ids"}
          \subseteq DOMAIN data
    /\ data.snapshot_ids # <<>>

StartRollback ==
    /\ Begin("rollback")
    /\ rpc' = "read"
    /\ rb' = NoLocals
    /\ UNCHANGED <<avars, xvars>>
    /\ UNCHANGED <<inst_type, inst_state, block_device_mappings, snapshots,
                   created, deleted, rollback_file, new_type, current_type,
                   state>>

ReadRollback ==
    /\ script = "rollback"
    /\ rpc = "read"
    /\ IF rollback_file = NoFile \/ ~RequiredData(rollback_file)
       THEN Finish(1) /\ UNCHANGED rb
       ELSE /\ rb' = [rb EXCEPT
                        !.original_instance_type =
                            rollback_file.original_instance_type,
                        !.snapshot_ids = rollback_file.snapshot_ids]
            /\ rpc' = "stop"
            /\ UNCHANGED <<script, log>>
    /\ UNCHANGED <<avars, xvars>>
    /\ UNCHANGED <<runs, inst_type, inst_state, block_device_mappings,
                   snapshots, created, deleted, rollback_file, new_type,
                   current_type, state, calls>>

\* variation: the instance is left as it is found
RollbackStop_Skipped ==
    /\ script = "rollback"
    /\ rpc = "stop"
    /\ rpc' = "root"
    /\ UNCHANGED <<avars, xvars>>
    /\ UNCHANGED <<script, runs, inst_type, inst_state, block_device_mappings,
                   snapshots, created, deleted, rollback_file, new_type,
                   current_type, state, rb, calls, log>>

RollbackStop ==
    /\ script = "rollback"
    /\ rpc = "stop"
    /\ inst_state' = "stopped"
    /\ calls' = Append(calls, "stop")
    /\ rpc' = "root"
    /\ UNCHANGED <<avars, xvars>>
    /\ UNCHANGED <<script, runs, inst_type, block_device_mappings, snapshots,
                   created, deleted, rollback_file, new_type, current_type,
                   state, rb, log>>

RollbackRootVolume ==
    /\ script = "rollback"
    /\ rpc = "root"
    /\ LET found == get_root_volume_id(block_device_mappings) IN
       IF found[1] = NoVolume
       THEN Finish(1) /\ UNCHANGED rb
       ELSE /\ rb' = [rb EXCEPT !.old_volume_id = found[1],
                                !.device_name = found[2]]
            /\ rpc' = "create"
            /\ UNCHANGED <<script, log>>
    /\ UNCHANGED <<avars, xvars>>
    /\ UNCHANGED <<runs, inst_type, inst_state, block_device_mappings,
                   snapshots, created, deleted, rollback_file, new_type,
                   current_type, state, calls>>

\* create_volume from snapshot_ids[0], which must still exist
RollbackCreateVolume ==
    /\ script = "rollback"
    /\ rpc = "create"
    /\ rb.snapshot_ids[1] \notin deleted
    /\ created' = Append(created, rb.snapshot_ids[1])
    /\ rb' = [rb EXCEPT !.new_volume_id = <<"new", Len(created) + 1>>]
    /\ calls' = Append(calls, "create_volume")
    /\ rpc' = "detach"
    /\ UNCHANGED <<avars, xvars>>
    /\ UNCHANGED <<script, runs, inst_type, inst_state, block_device_mappings,
                   snapshots, deleted, rollback_file, new_type, current_type,
                   state, log>>

RollbackCreateVolumeFails ==
    /\ script = "rollback"
    /\ rpc = "create"
    /\ calls' = Append(calls, "create_volume")
    /\ Finish(1)
    /\ UNCHANGED <<avars, xvars>>
    /\ UNCHANGED <<runs, inst_type, inst_state, block_device_mappings,
                   snapshots, created, deleted, rollback_file, new_type,
                   current_type, state, rb>>

RollbackDetach ==
    /\ script = "rollback"
    /\ rpc = "detach"
    /\ block_device_mappings' =
          SelectSeq(block_device_mappings,
                    LAMBDA m : m.VolumeId # rb.old_volume_id)
    /\ calls' = Append(calls, "detach_volume")
    /\ rpc' = "attach"
    /\ UNCHANGED <<avars, xvars>>
    /\ UNCHANGED <<script, runs, inst_type, inst_state, snapshots, created,
                   deleted, rollback_file, new_type, current_type, state, rb,
                   log>>

RollbackAttach ==
    /\ script = "rollback"
    /\ rpc = "attach"
    /\ block_device_mappings' =
          Append(block_device_mappings,
                 [DeviceName |-> rb.device_name,
                  VolumeId |-> rb.new_volume_id])
    /\ calls' = Append(calls, "attach_volume")
    /\ rpc' = "modify"
    /\ UNCHANGED <<avars, xvars>>
    /\ UNCHANGED <<script, runs, inst_type, inst_state, snapshots, created,
                   deleted, rollback_file, new_type, current_type, state, rb,
                   log>>

RollbackModify ==
    /\ script = "rollback"
    /\ rpc = "modify"
    /\ inst_type' = rb.original_instance_type
    /\ calls' = Append(calls, "modify")
    /\ rpc' = "start"
    /\ UNCHANGED <<avars, xvars>>
    /\ UNCHANGED <<script, runs, inst_state, block_device_mappings, snapshots,
                   created, deleted, rollback_file, new_type, current_type,
                   state, rb, log>>

RollbackStart ==
    /\ script = "rollback"
    /\ rpc = "start"
    /\ inst_state' = "running"
    /\ calls' = Append(calls, "start")
    /\ rpc' = "cleanup"
    /\ UNCHANGED <<avars, xvars>>
    /\ UNCHANGED <<script, runs, inst_type, block_device_mappings, snapshots,
                   created, deleted, rollback_file, new_type, current_type,
                   state, rb, log>>

\* delete the old volume and the snapshot; errors are printed and ignored
RollbackCleanup ==
    /\ script = "rollback"
    /\ rpc = "cleanup"
    /\ deleted' = deleted \cup {rb.old_volume_id, rb.snapshot_ids[1]}
    /\ calls' = calls \o <<"delete_volume", "delete_snapshot">>
    /\ Finish(0)
    /\ UNCHANGED <<avars, xvars>>
    /\ UNCHANGED <<runs, inst_type, inst_state, block_device_mappings,
                   snapshots, created, rollback_file, new_type, current_type,
                   state, rb>>

RNext ==
    \/ StartResizeEc2
    \/ StartResizeInput
    \/ DescribeInstance
    \/ CheckTarget
    \/ DryRunSucceeds
    \/ DryRunFails
    \/ StopIfRunning
    \/ SaveRollback
    \/ ModifyType
    \/ ModifyFails
    \/ StartInstance
    \/ StartSnapshots
    \/ CreateSnapshots
    \/ SaveSnapshotRollback
    \/ StartRollback
    \/ ReadRollback
    \/ RollbackStop
    \/ RollbackRootVolume
    \/ RollbackCreateVolume
    \/ RollbackCreateVolumeFails
    \/ RollbackDetach
    \/ RollbackAttach
    \/ RollbackModify
    \/ RollbackStart
    \/ RollbackCleanup

SpecControl == RInit /\ [][RNext]_vars

\* -------------------------------------------------------------------------
\* Properties of the analysis run (SpecAnalysis)
\* -------------------------------------------------------------------------

Count(seq, x) == Cardinality({i \in DOMAIN seq : seq[i] = x})

Written == recommendation_file # NoFile

Ended == pc \in {"done", "crashed"}

\* C1: in every ResizeRecommendation written by either pipeline,
\* action_required is true if and only if validated is true.
C1_ActionRequiredIffValidated ==
    Written =>
        /\ recommendation_file.validated = validated
        /\ recommendation_file.action_required = validated

C1_Witness ==
    /\ pc = "done"
    /\ Written
    /\ recommendation_file.action_required
    /\ recommendation_file.validated

\* C2: the validator accepts a suggestion iff it is exactly an element of
\* the universe; a record with validated (and action_required) true names a
\* member of the universe, and a reply that is no member - the empty and
\* the missing reply included - ends with validated false.
C2_ValidatedIffMember ==
    /\ pc \in {"record", "done"} =>
          (validated <=> oracle_reply \in Range(valid_instance_types))
    /\ Written =>
          /\ recommendation_file.validated =>
                /\ recommendation_file.action_required
                /\ recommendation_file.ai_suggested_instance_type
                      \in Range(valid_instance_types)
          /\ oracle_reply \notin Range(valid_instance_types) =>
                /\ ~recommendation_file.validated
                /\ ~recommendation_file.action_required

C2_Witness ==
    /\ pc = "done"
    /\ oracle_calls = 1
    /\ recommendation_file.validated
    /\ recommendation_file.ai_suggested_instance_type
          \in Range(valid_instance_types)

\* C4: a run whose threshold decision is downgrade and whose shortlist has
\* no member of strictly lower size rank than the current type records
\* retain with action_required false and never queries the oracle, in both
\* pipeline variants.
C4_InfeasibleDowngradeRetains ==
    ( /\ threshold = "downgrade"
      /\ ~can_downgrade(instance_type,
                        build_instance_shortlist(variant, instance_type,
                                                 valid_instance_types)) )
    => /\ oracle_calls = 0
       /\ Written => /\ recommendation_file.decision = "retain"
                     /\ ~recommendation_file.action_required

\* C5: with the cut points low = 30 and high = 50, threshold_decision of
\* both variants gives downgrade below low, upgrade above high and retain
\* in between.
C5_ThresholdPolicy ==
    threshold # "unset" =>
        /\ cpu < 30 => threshold = "downgrade"
        /\ cpu > 50 => threshold = "upgrade"
        /\ (30 <= cpu /\ cpu <= 50) => threshold = "retain"

\* C6: an oracle failure (the call raises, or the reply is empty, missing
\* or no member of the universe) is never fatal: the run still writes a
\* ResizeRecommendation with validated and action_required false.
C6_OracleFailureNotFatal ==
    /\ pc # "crashed"
    /\ ( /\ pc = "done"
         /\ oracle_calls > 0
         /\ oracle_reply \notin Range(valid_instance_types) )
       => /\ Written
          /\ ~recommendation_file.validated
          /\ ~recommendation_file.action_required

\* the stages of a run in the order the state machine allows
StageOrder == <<"threshold_evaluated", "feasibility_checked",
                "oracle_queried", "written">>

\* C7: every run ends in one terminal state in which it has written the
\* ResizeRecommendation exactly once, as its last step; the stages are
\* visited in the order threshold, feasibility, oracle; the record is not
\* touched after it is written.
C7_RunWritesOnceInOrder ==
    /\ Ended => /\ Count(trace, "written") = 1
                /\ trace[Len(trace)] = "written"
                /\ Written
    /\ \A i, j \in DOMAIN trace :
          i < j => IndexOf(StageOrder, trace[i]) < IndexOf(StageOrder, trace[j])
    /\ Written => pc = "done"

\* -------------------------------------------------------------------------
\* Properties of the instance control scripts (SpecControl)
\* -------------------------------------------------------------------------

\* the script that runs, or the last one that ran
LastScript == IF log = <<>> THEN "none" ELSE log[Len(log)].script

\* run i of the log has ended with exit status code
Exited(i, code) == log[i].ended /\ log[i].exit = code

LastExited(code) == log # <<>> /\ Exited(Len(log), code)

Mutating == {"stop", "modify", "start"}

\* position of the first x in seq, Len(seq) + 1 when there is none
First(seq, x) ==
    IF IndexOf(seq, x) = 0 THEN Len(seq) + 1 ELSE IndexOf(seq, x)

\* C3: resize_ec2.py issues stop, modify or start only when the record's
\* action_required is true; for a record with action_required false it
\* makes no mutating call and writes no rollback record.
C3_NoMutationWithoutActionRequired ==
    (LastScript = "resize_ec2" /\ ~recommendation_file.action_required)
    => \A i \in DOMAIN calls : calls[i] \notin Mutating \cup {"write_rollback"}

\* C8: after snapshot preparation followed by a successful resize by any
\* resize variant, a run of rollback_instance reads rollback.json
\* successfully and ends with the type the instance had before the resize.
C8_RollbackRestoresType ==
    \A i \in DOMAIN log :
        ( /\ i + 2 \in DOMAIN log
          /\ log[i].script = "snapshots" /\ Exited(i, 0)
          /\ log[i + 1].script \in ResizeScripts /\ Exited(i + 1, 0)
          /\ log[i + 2].script = "rollback" /\ log[i + 2].ended
          /\ i + 2 = Len(log) )
        => /\ ~(Exited(i + 2, 1) /\ calls = <<>>)
           /\ Exited(i + 2, 0) => inst_type = log[i + 1].before

\* C9 as first stated: in every run of every resize variant the rollback
\* record is written before the first of the calls stop, modify, start.
C9_RollbackBeforeAnyMutation ==
    LastScript \in ResizeScripts =>
        \A i \in DOMAIN calls :
            calls[i] \in Mutating => First(calls, "write_rollback") < i

\* C9: in every run of every resize variant the rollback record holding
\* the pre-change type is written before the modify call and before the
\* start call of that run; the stop call, issued only when the instance
\* was not found stopped, comes before the record is written.
C9_RollbackBeforeModify ==
    LastScript \in ResizeScripts =>
        /\ \A i \in DOMAIN calls :
              calls[i] \in {"modify", "start"}
                 => First(calls, "write_rollback") < i
        /\ \A i \in DOMAIN calls :
              calls[i] = "stop"
                 => /\ i < First(calls, "write_rollback")
                    /\ state # "stopped"
        /\ (\E i \in DOMAIN calls : calls[i] = "write_rollback")
              => rollback_file =
                    [previous_instance_type |-> log[Len(log)].before]

C9_Witness ==
    /\ LastScript \in ResizeScripts
    /\ calls = <<"dry_run_passed", "stop", "write_rollback", "modify", "start">>
    /\ inst_type # log[Len(log)].before
    /\ rollback_file = [previous_instance_type |-> log[Len(log)].before]

\* C10: in every resize variant, a dry run that fails with anything but
\* the sentinel ends the run with a non-zero status, no stop, modify or
\* start call and rollback.json as it was; stop, modify, start and the
\* write of rollback.json happen only after a dry run that reported the
\* sentinel.
C10_DryRunGate ==
    LastScript \in ResizeScripts =>
        /\ (\E i \in DOMAIN calls : calls[i] = "dry_run_failed")
              => /\ calls = <<"dry_run_failed">>
                 /\ LastExited(1)
                 /\ rollback_file = log[Len(log)].rollback_before
                 /\ inst_type = log[Len(log)].before
        /\ \A i \in DOMAIN calls :
              calls[i] \in Mutating \cup {"write_rollback"}
                 => First(calls, "dry_run_passed") < i

C10_Witness ==
    /\ LastScript \in ResizeScripts
    /\ calls = <<"dry_run_failed">>
    /\ LastExited(1)
    /\ rollback_file # NoFile
    /\ rollback_file = log[Len(log)].rollback_before

\* -------------------------------------------------------------------------
\* build_instance_shortlist on its own
\* -------------------------------------------------------------------------

m5 == <<"m", "5">>
m5a == <<"m", "5", "a">>
t4g == <<"t", "4", "g">>

\* types describe_instance_types can list to the shortlist builder
ShortlistPool ==
    { T(m5, "metal"), T(m5, "12xlarge"), T(m5, "large"), T(m5a, "large"),
      T(t3a, "large"), T(t3, "large"), T(t4g, "medium") }

ShortlistCurrentTypes == {T(m5, "large"), T(t3, "large")}

\* valid_types lists at most MaxList types
MaxList == 3

\* the provider lists a type once, in any order
ShortlistUniverses ==
    UNION { { u \in [1..n -> ShortlistPool] :
                \A i, j \in 1..n : u[i] = u[j] => i = j } : n \in 0..MaxList }

SInit ==
    /\ variant \in {"groq", "openai"}
    /\ pc = "call"
    /\ instance_type \in ShortlistCurrentTypes
    /\ valid_instance_types \in ShortlistUniverses
    /\ cpu = 0
    /\ decision = "unset"
    /\ shortlist = <<>>
    /\ suggested_type = None
    /\ validated = FALSE
    /\ recommendation_file = NoFile
    /\ threshold = "unset"
    /\ oracle_calls = 0
    /\ oracle_reply = None
    /\ trace = <<>>
    /\ inst_type = instance_type
    /\ inst_state = "running"
    /\ block_device_mappings = <<RootMapping>>
    /\ RIdle
    /\ XIdle

CallBuildShortlist ==
    /\ pc = "call"
    /\ shortlist' = build_instance_shortlist(variant, instance_type,
                                             valid_instance_types)
    /\ returned' = Append(returned, shortlist')
    /\ pc' = "returned"
    /\ UNCHANGED rvars
    /\ UNCHANGED <<desired_instance_type, ai_response, validation_file,
                   cache_file, clock, fetcher, provider_fetches, worker>>
    /\ UNCHANGED <<variant, instance_type, valid_instance_types, cpu,
                   decision, suggested_type, validated, recommendation_file,
                   threshold, oracle_calls, oracle_reply, trace>>

\* the function is called once more with the same arguments
CallBuildShortlistAgain ==
    /\ pc = "returned"
    /\ shortlist' = build_instance_shortlist(variant, instance_type,
                                             valid_instance_types)
    /\ returned' = Append(returned, shortlist')
    /\ pc' = "returned_twice"
    /\ UNCHANGED rvars
    /\ UNCHANGED <<desired_instance_type, ai_response, validation_file,
                   cache_file, clock, fetcher, provider_fetches, worker>>
    /\ UNCHANGED <<variant, instance_type, valid_instance_types, cpu,
                   decision, suggested_type, validated, recommendation_file,
                   threshold, oracle_calls, oracle_reply, trace>>

SNext ==
    \/ CallBuildShortlist
    \/ CallBuildShortlistAgain

SpecShortlist == SInit /\ [][SNext]_vars

\* t.split('.')[0]
Family(t) == Split(t)[1]

\* C11: every element of the list build_instance_shortlist returns has a
\* family that is exactly the current family or one the compatibility
\* table declares for it.  The code keeps every type that starts with such
\* a family: for the current type m5.large it keeps m5a.large.
C11_ShortlistFamiliesDeclared ==
    pc = "returned" =>
        \A i \in DOMAIN shortlist :
            Family(shortlist[i]) \in Range(compatible_families(instance_type))

\* the size token of t is in the size vocabulary
Ranked(t) == Len(Split(t)) >= 2 /\ IndexOf(sizes, Split(t)[2]) # 0

\* the list is in ascending order of the key of the variant that built it
OrderedByKey ==
    \A i, j \in DOMAIN shortlist :
        i < j => ~KeyLess(SortKey(variant, compatible_families(instance_type),
                                  shortlist[j]),
                          SortKey(variant, compatible_families(instance_type),
                                  shortlist[i]))

\* elements of equal key stand in the order they have in valid_types
StableOrder ==
    \A i, j \in DOMAIN shortlist :
        (/\ i < j
         /\ SortKey(variant, compatible_families(instance_type), shortlist[i])
              = SortKey(variant, compatible_families(instance_type),
                        shortlist[j]))
            => IndexOf(valid_instance_types, shortlist[i])
                 < IndexOf(valid_instance_types, shortlist[j])

SameOrderBothVariants ==
    build_instance_shortlist("groq", instance_type, valid_instance_types)
      = build_instance_shortlist("openai", instance_type, valid_instance_types)

\* C20 as stated: the returned list is in ascending key order, stable, and
\* both pipeline variants return the same order for the same inputs.
C20_SameOrderBothVariants ==
    pc = "returned" => OrderedByKey /\ StableOrder /\ SameOrderBothVariants

\* C20 amended: the returned list is in ascending order of the variant's own
\* key (family position, 99 for a family outside the declaration, then the
\* variant's size rank), stable; the two variants return the same order
\* when every element of the list has a size token of the vocabulary.
C20_OrderedByVariantKey ==
    pc = "returned" =>
        /\ OrderedByKey
        /\ StableOrder
        /\ (\A i \in DOMAIN shortlist : Ranked(shortlist[i]))
              => SameOrderBothVariants

\* three elements returned, two of them of equal key, in another order
\* than the universe lists them
C20_Witness ==
    /\ pc = "returned"
    /\ Len(shortlist) = 3
    /\ shortlist # valid_instance_types
    /\ \E i, j \in DOMAIN shortlist :
          /\ i < j
          /\ SortKey(variant, compatible_families(instance_type), shortlist[i])
               = SortKey(variant, compatible_families(instance_type),
                         shortlist[j])

\* -------------------------------------------------------------------------
\* Scenarios of an analysis run
\* -------------------------------------------------------------------------

ScenarioA ==
    /\ instance_type = T(t2, "micro")
    /\ cpu = 5
    /\ threshold # "unset"

SmallerT2Listed ==
    \E i \in DOMAIN valid_instance_types :
        /\ StartsWith(valid_instance_types[i], t2)
        /\ \/ ~Ranked(valid_instance_types[i])
           \/ Split(valid_instance_types[i])[2] = <<"nano">>

C13_ValidationKeepsDecision ==
    oracle_calls > 0 =>
        /\ threshold \in {"upgrade", "downgrade"}
        /\ decision = threshold
        /\ Written =>
              /\ recommendation_file.decision = threshold
              /\ recommendation_file.validated = validated
              /\ ~validate_instance_type(suggested_type, valid_instance_types)
                    => /\ recommendation_file.validated = FALSE
                       /\ recommendation_file.action_required = FALSE

\* scenario C: the oracle answered t3.huge, which no universe lists, and
\* the record is written
C13_Witness ==
    /\ Written
    /\ oracle_calls = 1
    /\ suggested_type = T(t3, "huge")
    /\ recommendation_file.decision = "upgrade"
    /\ recommendation_file.validated = FALSE

\* t is of the size vocabulary and below the current type in it
RankedSmaller(t, current_instance_type) ==
    /\ Ranked(t)
    /\ Ranked(current_instance_type)
    /\ IndexOf(sizes, Split(t)[2])
         < IndexOf(sizes, Split(current_instance_type)[2])

\* C19: in the downgrade feasibility check a shortlist member of unranked
\* size never counts as smaller than a ranked current type: when no member
\* of the shortlist is ranked below the current type, the run that made
\* the check retains and never queries the oracle.
C19_UnrankedNeverSmaller ==
    (/\ \E i \in DOMAIN trace : trace[i] = "feasibility_checked"
     /\ Ranked(instance_type)
     /\ \A i \in DOMAIN shortlist :
            ~RankedSmaller(shortlist[i], instance_type))
        => /\ oracle_calls = 0
           /\ decision = "retain"

\* the entry of the latest run of snapshots_and_save_rollback.py
LastSnapshotRun ==
    CHOOSE j \in DOMAIN log :
        /\ log[j].script = "snapshots"
        /\ \A k \in DOMAIN log : log[k].script = "snapshots" => k <= j

\* C17: the snapshot rollback restores the original boot volume: when
\* rollback_instance.py has ended with success, the volume on the root
\* device was created from the snapshot taken of the volume that was the
\* root volume when the snapshots were taken.
C17_RollbackRestoresBootVolume ==
    (LastScript = "rollback" /\ LastExited(0)) =>
        LET root == get_root_volume_id(block_device_mappings)[1] IN
        /\ root[1] = "new"
        /\ snapshots[created[root[2]][2]] = log[LastSnapshotRun].root_before

\* -------------------------------------------------------------------------
\* validate_request.py: the compatibility workflow
\* -------------------------------------------------------------------------

\* str.upper, symbol by symbol; a symbol without lower-case letters stays
UpperSymbol(c) ==
    CASE c = "valid" -> "VALID"
      [] c = "Valid" -> "VALID"
      [] c = "not_valid" -> "NOT_VALID"
      [] c = "the request is" -> "THE REQUEST IS"
      [] c = "moving to" -> "MOVING TO"
      [] c = "t" -> "T"
      [] OTHER -> c

Upper(s) == [i \in DOMAIN s |-> UpperSymbol(s[i])]

\* str.split('.', 1)
SplitOnce(s) ==
    IF FirstDot(s) = 0
    THEN <<s>>
    ELSE <<SubSeq(s, 1, FirstDot(s) - 1), SubSeq(s, FirstDot(s) + 1, Len(s))>>

VALID == <<"VALID">>

NOT_VALID == <<"NOT_VALID">>

\* message contents the inference service can send back, before .strip()
CompatTexts ==
    { VALID \o <<".", " ", "It offers more resources.">>,
      NOT_VALID \o <<".", " ", "This is a downgrade.">>,
      <<"valid", ".", " ", "It offers more resources.">>,
      <<"\n", "VALID", " ", ".", " ", "It offers more resources.", "\n">>,
      <<>>,
      VALID,
      <<"the request is", " ", "VALID", ".">>,
      <<"INVALID", ".", " ", "This is a downgrade.">>,
      <<"moving to", " ">> \o T(t3, "xlarge") \o <<" ", "is", " ", "VALID", ".">> }

\* desired_instance_type of the input file
RequestedTypes == {T(t3, "xlarge"), T(t2, "nano"), T(t3a, "large")}

\* variation: the verdict is compared as it is spelled
ResizeValidation_CaseSensitive(it, desired, response) ==
    LET parts == SplitOnce(response) IN
    [ instance_id |-> "i-1",
      region |-> "r-1",
      current_instance_type |-> it,
      requested_instance_type |-> desired,
      architecture |-> "x86_64",
      operating_system |-> "Linux/UNIX",
      compatibility_decision |-> Upper(Strip(parts[1])),
      reason |-> IF Len(parts) > 1 THEN Strip(parts[2])
                 ELSE <<"No reason provided.">>,
      is_valid_upgrade |-> Strip(parts[1]) = VALID ]

\* the dictionary dumped to resize_validation.json
ResizeValidation(it, desired, response) ==
    LET parts == SplitOnce(response) IN
    [ instance_id |-> "i-1",
      region |-> "r-1",
      current_instance_type |-> it,
      requested_instance_type |-> desired,
      architecture |-> "x86_64",
      operating_system |-> "Linux/UNIX",
      compatibility_decision |-> Upper(Strip(parts[1])),
      reason |-> IF Len(parts) > 1 THEN Strip(parts[2])
                 ELSE <<"No reason provided.">>,
      is_valid_upgrade |-> Upper(Strip(parts[1])) = VALID ]

VInit ==
    /\ variant = "groq"
    /\ pc = "start"
    /\ instance_type = None
    /\ valid_instance_types = <<>>
    /\ cpu = 0
    /\ decision = "unset"
    /\ shortlist = <<>>
    /\ suggested_type = None
    /\ validated = FALSE
    /\ recommendation_file = NoFile
    /\ threshold = "unset"
    /\ oracle_calls = 0
    /\ oracle_reply = None
    /\ trace = <<>>
    /\ inst_type = T(t3, "large")
    /\ inst_state = "running"
    /\ block_device_mappings = <<RootMapping>>
    /\ RIdle
    /\ XIdle

LoadRequest ==
    /\ pc = "start"
    /\ desired_instance_type' \in RequestedTypes
    /\ pc' = "input"
    /\ UNCHANGED rvars
    /\ UNCHANGED <<variant, instance_type, valid_instance_types, cpu,
                   decision, shortlist, suggested_type, validated,
                   recommendation_file, threshold, oracle_calls, oracle_reply,
                   trace>>
    /\ UNCHANGED <<ai_response, validation_file, cache_file, clock, fetcher,
                   provider_fetches, worker,
                   returned>>

\* the input file is missing or lacks a key: exit status 1
LoadRequestFails ==
    /\ pc = "start"
    /\ pc' = "exited"
    /\ UNCHANGED rvars
    /\ UNCHANGED xvars
    /\ UNCHANGED <<variant, instance_type, valid_instance_types, cpu,
                   decision, shortlist, suggested_type, validated,
                   recommendation_file, threshold, oracle_calls, oracle_reply,
                   trace>>

RequestInstanceDetails ==
    /\ pc = "input"
    /\ instance_type' \in CurrentTypes
    /\ pc' = "details"
    /\ UNCHANGED rvars
    /\ UNCHANGED xvars
    /\ UNCHANGED <<variant, valid_instance_types, cpu, decision, shortlist,
                   suggested_type, validated, recommendation_file, threshold,
                   oracle_calls, oracle_reply, trace>>

RequestInstanceTypes ==
    /\ pc = "details"
    /\ valid_instance_types' \in Universes
    /\ pc' = "universe"
    /\ UNCHANGED rvars
    /\ UNCHANGED xvars
    /\ UNCHANGED <<variant, instance_type, cpu, decision, shortlist,
                   suggested_type, validated, recommendation_file, threshold,
                   oracle_calls, oracle_reply, trace>>

\* ai_analyze_compatibility returns the stripped message content
AiAnalyzeReturns ==
    /\ pc = "universe"
    /\ \E raw \in CompatTexts : ai_response' = Strip(raw)
    /\ oracle_calls' = oracle_calls + 1
    /\ pc' = "answered"
    /\ UNCHANGED rvars
    /\ UNCHANGED <<variant, instance_type, valid_instance_types, cpu,
                   decision, shortlist, suggested_type, validated,
                   recommendation_file, threshold, oracle_reply, trace>>
    /\ UNCHANGED <<desired_instance_type, validation_file, cache_file, clock,
                   fetcher, provider_fetches, worker,
                   returned>>

\* the request raises, or the content is None: nothing catches it
AiAnalyzeRaises ==
    /\ pc = "universe"
    /\ oracle_calls' = oracle_calls + 1
    /\ pc' = "crashed"
    /\ UNCHANGED rvars
    /\ UNCHANGED xvars
    /\ UNCHANGED <<variant, instance_type, valid_instance_types, cpu,
                   decision, shortlist, suggested_type, validated,
                   recommendation_file, threshold, oracle_reply, trace>>

\* the response is parsed and the record is written
WriteValidation ==
    /\ pc = "answered"
    /\ validation_file' = ResizeValidation(instance_type,
                                           desired_instance_type, ai_response)
    /\ pc' = "done"
    /\ UNCHANGED rvars
    /\ UNCHANGED <<variant, instance_type, valid_instance_types, cpu,
                   decision, shortlist, suggested_type, validated,
                   recommendation_file, threshold, oracle_calls, oracle_reply,
                   trace>>
    /\ UNCHANGED <<desired_instance_type, ai_response, cache_file, clock,
                   fetcher, provider_fetches, worker,
                   returned>>

VNext ==
    \/ LoadRequest
    \/ LoadRequestFails
    \/ RequestInstanceDetails
    \/ RequestInstanceTypes
    \/ AiAnalyzeReturns
    \/ AiAnalyzeRaises
    \/ WriteValidation

SpecCompatibility == VInit /\ [][VNext]_vars

\* the text of s before its first period, the whole of s when it has none
BeforeFirstPeriod(s) ==
    IF \E i \in DOMAIN s : s[i] = "."
    THEN SubSeq(s, 1, (CHOOSE i \in DOMAIN s :
                          s[i] = "." /\ \A j \in 1..(i - 1) : s[j] # ".") - 1)
    ELSE s

\* C14: in the compatibility workflow, for every oracle response,
\* is_valid_upgrade is true iff the text before the first period of the
\* response, trimmed and upper-cased, is VALID; every response is followed
\* by the write of resize_validation.json and by nothing else.
C14_VerdictParsing ==
    /\ ai_response # None =>
          /\ pc \in {"answered", "done"}
          /\ pc = "answered" => ENABLED WriteValidation
          /\ pc = "done" =>
                /\ validation_file # NoFile
                /\ validation_file.is_valid_upgrade
                     = (Upper(Strip(BeforeFirstPeriod(ai_response))) = VALID)
    /\ validation_file # NoFile => pc = "done"

\* the oracle answered "valid. ..." in lower case and the record says true
C14_Witness ==
    /\ pc = "done"
    /\ ai_response # <<>>
    /\ Head(ai_response) = "valid"
    /\ validation_file.is_valid_upgrade = TRUE

\* C15: in every resize_validation record compatibility_decision is VALID
\* or NOT_VALID, and is_valid_upgrade is true exactly when it is VALID.
C15_DecisionIsVerdict ==
    validation_file # NoFile =>
        /\ validation_file.compatibility_decision \in {VALID, NOT_VALID}
        /\ validation_file.is_valid_upgrade
             = (validation_file.compatibility_decision = VALID)

\* -------------------------------------------------------------------------
\* fetch_available_instance_types and its cache file
\*
\* Time is counted in half hours.  The text of a timestamp keeps whole
\* hours where the code keeps whole seconds: what strftime writes may lie
\* behind the clock by less than one unit of its resolution.
\* -------------------------------------------------------------------------

\* the clock advances at most MaxClock half hours during the runs
MaxClock == 2

\* timedelta(hours=23)
FreshHours == 23

\* now.strftime("%Y-%m-%dT%H:%M:%SZ"): the whole units of now
strftime(now) == now \div 2

\* datetime.strptime(text, "%Y-%m-%dT%H:%M:%SZ")
strptime(text) == text * 2

\* f"{region}_{architecture}"
Keys == {"r-1_x86_64", "r-1_arm64"}

\* what the paginator lists for the architecture of the key
ProviderList(key) ==
    IF key = "r-1_x86_64"
    THEN << T(t3, "large"), T(t3, "xlarge") >>
    ELSE << T(t4g, "medium") >>

\* what an earlier refresh stored for the key
CachedList(key) ==
    IF key = "r-1_x86_64"
    THEN << T(t3, "large") >>
    ELSE << T(t4g, "medium"), T(t4g, "small") >>

\* the dictionary has no such key
Absent == [absent |-> TRUE]

\* cache = {}
EmptyCache == [k \in Keys |-> Absent]

\* entries an earlier run can have left for the key: 24, 23 and 22 hours
\* before the clock starts, or without a timestamp
CachedEntries(key) ==
    { [instance_types |-> CachedList(key)] }
      \cup { [last_updated |-> 0 - h, instance_types |-> CachedList(key)] :
               h \in {FreshHours + 1, FreshHours, FreshHours - 1} }

InitialCaches ==
    { NoFile }
      \cup { [k \in Keys |->
                IF k = "r-1_x86_64" THEN e
                ELSE IF other THEN [last_updated |-> 0 - 1,
                                    instance_types |-> CachedList(k)]
                     ELSE Absent] :
               e \in {Absent} \cup CachedEntries("r-1_x86_64"),
               other \in BOOLEAN }

\* variation: an entry that is exactly 23 hours old still counts as fresh
IsFresh_Inclusive(now, last_updated) ==
    now - strptime(last_updated) <= FreshHours * 2

\* now - last_updated < timedelta(hours=23)
IsFresh(now, last_updated) ==
    now - strptime(last_updated) < FreshHours * 2

CInit ==
    /\ variant \in {"groq", "openai"}
    /\ pc = "start"
    /\ instance_type = None
    /\ valid_instance_types = <<>>
    /\ cpu = 0
    /\ decision = "unset"
    /\ shortlist = <<>>
    /\ suggested_type = None
    /\ validated = FALSE
    /\ recommendation_file = NoFile
    /\ threshold = "unset"
    /\ oracle_calls = 0
    /\ oracle_reply = None
    /\ trace = <<>>
    /\ inst_type = T(t3, "large")
    /\ inst_state = "running"
    /\ block_device_mappings = <<RootMapping>>
    /\ RIdle
    /\ desired_instance_type = None
    /\ ai_response = None
    /\ validation_file = NoFile
    /\ cache_file \in InitialCaches
    /\ clock = 0
    /\ fetcher = [p \in Runs |-> FetcherIdle]
    /\ provider_fetches = <<>>
    /\ worker = [p \in Runs |-> WorkerIdle]
    /\ returned = <<>>

Tick ==
    /\ clock < MaxClock
    /\ clock' = clock + 1
    /\ UNCHANGED <<avars, rvars>>
    /\ UNCHANGED <<desired_instance_type, ai_response, validation_file,
                   cache_file, fetcher, provider_fetches, worker,
                   returned>>

\* the call begins: now = datetime.utcnow()
BeginFetch(p) ==
    /\ fetcher[p].pc = "idle"
    /\ \E k \in Keys :
          fetcher' = [fetcher EXCEPT ![p].key = k,
                                     ![p].now = clock,
                                     ![p].pc = "lookup"]
    /\ UNCHANGED <<avars, rvars>>
    /\ UNCHANGED <<desired_instance_type, ai_response, validation_file,
                   cache_file, clock, provider_fetches, worker,
                   returned>>

\* the file is read; a fresh entry of the key is returned
CacheLookup(p) ==
    /\ fetcher[p].pc = "lookup"
    /\ LET f == fetcher[p]
           entry == IF cache_file = NoFile THEN NoFile ELSE cache_file[f.key]
       IN  IF /\ cache_file # NoFile
              /\ entry # Absent
              /\ "last_updated" \in DOMAIN entry
              /\ IsFresh(f.now, entry.last_updated)
           THEN fetcher' = [fetcher EXCEPT ![p].found = entry,
                                           ![p].result = entry.instance_types,
                                           ![p].pc = "returned"]
           ELSE fetcher' = [fetcher EXCEPT ![p].found = entry,
                                           ![p].pc = "paginate"]
    /\ UNCHANGED <<avars, rvars>>
    /\ UNCHANGED <<desired_instance_type, ai_response, validation_file,
                   cache_file, clock, provider_fetches, worker,
                   returned>>

\* describe_instance_types is paginated
Paginate(p) ==
    /\ fetcher[p].pc = "paginate"
    /\ fetcher' = [fetcher EXCEPT
                     ![p].valid_types = ProviderList(fetcher[p].key),
                     ![p].fetched = TRUE,
                     ![p].pc = "reload"]
    /\ provider_fetches' = Append(provider_fetches, <<p, fetcher[p].key>>)
    /\ UNCHANGED <<avars, rvars>>
    /\ UNCHANGED <<desired_instance_type, ai_response, validation_file,
                   cache_file, clock, worker,
                   returned>>

\* the file is read again, or the cache starts empty
Reload(p) ==
    /\ fetcher[p].pc = "reload"
    /\ fetcher' = [fetcher EXCEPT
                     ![p].cache = IF cache_file = NoFile THEN EmptyCache
                                  ELSE cache_file,
                     ![p].pc = "store"]
    /\ UNCHANGED <<avars, rvars>>
    /\ UNCHANGED <<desired_instance_type, ai_response, validation_file,
                   cache_file, clock, provider_fetches, worker,
                   returned>>

\* the entry of the key is replaced and the whole dictionary is written
Store(p) ==
    /\ fetcher[p].pc = "store"
    /\ LET f == fetcher[p]
           entry == [last_updated |-> strftime(f.now),
                     instance_types |-> f.valid_types]
       IN  /\ cache_file' = [f.cache EXCEPT ![f.key] = entry]
           /\ fetcher' = [fetcher EXCEPT ![p].wrote = entry,
                                         ![p].result = f.valid_types,
                                         ![p].pc = "returned"]
    /\ UNCHANGED <<avars, rvars>>
    /\ UNCHANGED <<desired_instance_type, ai_response, validation_file,
                   clock, provider_fetches, worker,
                   returned>>

CNext ==
    \/ Tick
    \/ \E p \in Runs : BeginFetch(p)
    \/ \E p \in Runs : CacheLookup(p)
    \/ \E p \in Runs : Paginate(p)
    \/ \E p \in Runs : Reload(p)
    \/ \E p \in Runs : Store(p)

SpecCache == CInit /\ [][CNext]_vars

\* the call of p found an entry of its key that carries a timestamp
FoundStamped(p) ==
    /\ fetcher[p].found # NoFile
    /\ fetcher[p].found # Absent
    /\ "last_updated" \in DOMAIN fetcher[p].found

\* age, in half hours, of the entry the call of p found
FoundAge(p) == fetcher[p].now - strptime(fetcher[p].found.last_updated)

\* the call of p paginated the provider and wrote the entry with now
Refetched(p) ==
    /\ fetcher[p].fetched
    /\ fetcher[p].result = ProviderList(fetcher[p].key)
    /\ fetcher[p].wrote = [last_updated |-> strftime(fetcher[p].now),
                           instance_types |-> fetcher[p].result]

\* the call of p returned what it found, without a provider fetch
Reused(p) ==
    /\ ~fetcher[p].fetched
    /\ fetcher[p].wrote = NoFile
    /\ fetcher[p].result = fetcher[p].found.instance_types

\* C16 as stated: an entry not older than 23 hours is returned without a
\* provider fetch; an entry older than 23 hours, or a missing file, key or
\* timestamp, leads to a provider fetch that rewrites the entry with
\* last_updated = now.
C16_CacheFreshness ==
    \A p \in Runs :
        fetcher[p].pc = "returned" =>
            IF FoundStamped(p) /\ FoundAge(p) <= FreshHours * 2
            THEN Reused(p)
            ELSE Refetched(p)

\* C16 amended: an entry younger than 23 hours is returned without a
\* provider fetch; an entry that is 23 hours old or older, or a missing
\* file, key or timestamp, leads to a provider fetch that rewrites the
\* entry with last_updated = now.
C16_CacheFreshnessStrict ==
    \A p \in Runs :
        fetcher[p].pc = "returned" =>
            IF FoundStamped(p) /\ FoundAge(p) < FreshHours * 2
            THEN Reused(p)
            ELSE Refetched(p)

\* a call found an entry exactly 23 hours old, paginated the provider and
\* wrote the entry again
C16_Witness ==
    \E p \in Runs :
        /\ fetcher[p].pc = "returned"
        /\ FoundStamped(p)
        /\ FoundAge(p) = FreshHours * 2
        /\ Refetched(p)

\* -------------------------------------------------------------------------
\* Two analysis runs, one per instance, side by side in one directory
\* -------------------------------------------------------------------------

\* sys.argv[1] of each run
InstanceId(p) == IF p = 1 THEN "i-1" ELSE "i-2"

\* the result dictionaries a run can build for its instance
RunResults(p) ==
    { [r EXCEPT !.instance_id = InstanceId(p)] :
        r \in RecommendationFiles(T(t3, "large")) }

FInit ==
    /\ variant \in {"groq", "openai"}
    /\ pc = "start"
    /\ instance_type = T(t3, "large")
    /\ valid_instance_types = SupportedTypes
    /\ cpu = 0
    /\ decision = "unset"
    /\ shortlist = <<>>
    /\ suggested_type = None
    /\ validated = FALSE
    /\ recommendation_file = NoFile
    /\ threshold = "unset"
    /\ oracle_calls = 0
    /\ oracle_reply = None
    /\ trace = <<>>
    /\ inst_type = T(t3, "large")
    /\ inst_state = "running"
    /\ block_device_mappings = <<RootMapping>>
    /\ RIdle
    /\ XIdle

\* a run works out its result dictionary
RunAnalysis(p) ==
    /\ worker[p].pc = "idle"
    /\ \E r \in RunResults(p) :
          worker' = [worker EXCEPT ![p].result = r, ![p].pc = "record"]
    /\ UNCHANGED <<avars, rvars>>
    /\ UNCHANGED <<desired_instance_type, ai_response, validation_file,
                   cache_file, clock, fetcher, provider_fetches,
                   returned>>

\* open("resize_recommendation.json", "w"); json.dump(result, f)
RunWriteResult(p) ==
    /\ worker[p].pc = "record"
    /\ recommendation_file' = worker[p].result
    /\ worker' = [worker EXCEPT ![p].pc = "done"]
    /\ UNCHANGED rvars
    /\ UNCHANGED <<variant, pc, instance_type, valid_instance_types, cpu,
                   decision, shortlist, suggested_type, validated, threshold,
                   oracle_calls, oracle_reply, trace>>
    /\ UNCHANGED <<desired_instance_type, ai_response, validation_file,
                   cache_file, clock, fetcher, provider_fetches,
                   returned>>

FNext ==
    \/ \E p \in Runs : RunAnalysis(p)
    \/ \E p \in Runs : RunWriteResult(p)

SpecFleet == FInit /\ [][FNext]_vars

\* the recommendation files that exist in the directory
PersistedRecommendations ==
    IF recommendation_file = NoFile THEN {} ELSE {recommendation_file}

\* C18: two concurrent analysis runs for different instances share no
\* output state: after both have finished, the persisted recommendation of
\* each instance is the one its own run computed.
C18_RunsKeepTheirRecords ==
    (\A p \in Runs : worker[p].pc = "done") =>
        \A p \in Runs :
            \E f \in PersistedRecommendations :
                /\ f.instance_id = InstanceId(p)
                /\ f = worker[p].result

\* what every state of the two calls shows: equal results, elements of
\* the universe only, nothing from an empty universe
ShortlistResults ==
    /\ Len(returned) = 2 => returned[1] = returned[2]
    /\ \A k \in DOMAIN returned :
          \A i \in DOMAIN returned[k] :
              returned[k][i] \in Range(valid_instance_types)
    /\ (returned # <<>> /\ valid_instance_types = <<>>) => returned[1] = <<>>

RankFamilies == {t3, m5, t4g}

\* one identifier per family and size word, sizes outside the vocabulary
\* (metal, 12xlarge), an empty size token, and identifiers without "."
RankIdentifiers ==
    { T(f, sizes[i][1]) : f \in RankFamilies, i \in DOMAIN sizes }
      \cup { T(f, s) : f \in RankFamilies, s \in {"metal", "12xlarge"} }
      \cup { f \o <<".">> : f \in RankFamilies }
      \cup RankFamilies

\* the outcome of ranking t where the variant ranks a type: _get_size_rank
\* catches IndexError and ValueError, the nested size_rank of the OpenAI
\* builder indexes t.split('.')[1] unguarded
RankCall(v, t) ==
    IF v = "groq"
    THEN [raised |-> FALSE, value |-> _get_size_rank(t)]
    ELSE IF Len(Split(t)) < 2
         THEN [raised |-> TRUE, value |-> 0]
         ELSE [raised |-> FALSE, value |-> size_rank(t)]

KInit ==
    /\ variant \in {"groq", "openai"}
    /\ pc = "call"
    /\ instance_type \in RankIdentifiers
    /\ valid_instance_types = <<>>
    /\ cpu = 0
    /\ decision = "unset"
    /\ shortlist = <<>>
    /\ suggested_type = None
    /\ validated = FALSE
    /\ recommendation_file = NoFile
    /\ threshold = "unset"
    /\ oracle_calls = 0
    /\ oracle_reply = None
    /\ trace = <<>>
    /\ inst_type = T(t3, "large")
    /\ inst_state = "running"
    /\ block_device_mappings = <<RootMapping>>
    /\ RIdle
    /\ XIdle

CallSizeRank ==
    /\ pc = "call"
    /\ returned' = Append(returned, RankCall(variant, instance_type))
    /\ pc' = "returned"
    /\ UNCHANGED rvars
    /\ UNCHANGED <<desired_instance_type, ai_response, validation_file,
                   cache_file, clock, fetcher, provider_fetches, worker>>
    /\ UNCHANGED <<variant, instance_type, valid_instance_types, cpu,
                   decision, shortlist, suggested_type, validated,
                   recommendation_file, threshold, oracle_calls, oracle_reply,
                   trace>>

KNext == CallSizeRank

SpecSizeRank == KInit /\ [][KNext]_vars

\* the unranked sentinel of the variant
Unranked == IF variant = "groq" THEN 0 - 1 ELSE 999

\* C22: the size-rank helper is total: for an identifier whose size token
\* is in the vocabulary it returns the index of the token, and for an
\* identifier without "." or with an unrecognized size token it returns
\* the unranked sentinel without raising, wherever a pipeline ranks a type.
C22_SizeRankTotal ==
    pc = "returned" =>
        /\ ~returned[1].raised
        /\ returned[1].value =
              IF Ranked(instance_type)
              THEN IndexOf(sizes, Split(instance_type)[2]) - 1
              ELSE Unranked

\* shortlist[:20], the entries enumerated in the prompt
shortlist_trimmed(list) ==
    SubSeq(list, 1, IF Len(list) < 20 THEN Len(list) ELSE 20)

\* C23: the shortlist entries shown in the prompt are the only acceptable
\* answers: in every written record with validated true the suggested type
\* is one of the entries of the shortlist prefix shown to the oracle.
C23_ValidatedFromPrompt ==
    (Written /\ recommendation_file.validated) =>
        suggested_type \in Range(shortlist_trimmed(shortlist))

\* t is of the size vocabulary and above the current type in it
RankedLarger(t, current_instance_type) ==
    /\ Ranked(t)
    /\ Ranked(current_instance_type)
    /\ IndexOf(sizes, Split(t)[2])
         > IndexOf(sizes, Split(current_instance_type)[2])

\* C24: a suggestion of the oracle never becomes an unsafe target: in
\* every written record with action_required true the suggested type is
\* not the current type, is ranked above it when the decision is upgrade
\* and below it when the decision is downgrade.
C24_TargetFollowsDecision ==
    (Written /\ recommendation_file.action_required) =>
        /\ recommendation_file.ai_suggested_instance_type # instance_type
        /\ recommendation_file.decision = "upgrade" =>
              RankedLarger(recommendation_file.ai_suggested_instance_type,
                           instance_type)
        /\ recommendation_file.decision = "downgrade" =>
              RankedSmaller(recommendation_file.ai_suggested_instance_type,
                            instance_type)

\* C28: in every written record decision is upgrade, downgrade or retain;
\* retain comes with no suggestion and validated and action_required
\* false; validated true comes with upgrade or downgrade and a suggestion.
C28_RecordInvariants ==
    Written =>
        /\ recommendation_file.decision \in {"upgrade", "downgrade", "retain"}
        /\ recommendation_file.decision = "retain" =>
              /\ recommendation_file.ai_suggested_instance_type = None
              /\ recommendation_file.validated = FALSE
              /\ recommendation_file.action_required = FALSE
        /\ recommendation_file.validated =>
              /\ recommendation_file.decision \in {"upgrade", "downgrade"}
              /\ recommendation_file.ai_suggested_instance_type # None

\* a Groq run turned an infeasible downgrade into retain and wrote it
C28_Witness ==
    /\ Written
    /\ variant = "groq"
    /\ threshold = "downgrade"
    /\ recommendation_file.decision = "retain"
    /\ valid_instance_types # <<>>

\* the facts ai_analyze_compatibility works out for its prompt
is_requested_type_valid_for_arch(desired_type, valid_types) ==
    \E i \in DOMAIN valid_types : valid_types[i] = desired_type

is_same_family(current, desired_type) ==
    Split(current)[1] = Split(desired_type)[1]

is_downgrade(current, desired_type) ==
    /\ _get_size_rank(desired_type) < _get_size_rank(current)
    /\ is_same_family(current, desired_type)

\* C25: the verdict is checked against the facts: is_valid_upgrade is true
\* only if the requested type is in the candidate universe and the request
\* is not a size decrease within the same family.
C25_VerdictRespectsFacts ==
    (validation_file # NoFile /\ validation_file.is_valid_upgrade) =>
        /\ is_requested_type_valid_for_arch(desired_instance_type,
                                            valid_instance_types)
        /\ ~is_downgrade(instance_type, desired_instance_type)

\* the call of p missed the cache and has not yet written its entry
Refreshing(p) == fetcher[p].pc \in {"paginate", "reload", "store"}

\* C26: concurrent misses of one key are collapsed: at most one refresh
\* of a key is in flight, so the provider is paginated at most once for
\* a key while the entry written stays fresh.
C26_RefreshCollapsed ==
    /\ \A p, q \in Runs :
          (p # q /\ Refreshing(p) /\ Refreshing(q))
              => fetcher[p].key # fetcher[q].key
    /\ \A k \in Keys :
          Cardinality({i \in DOMAIN provider_fetches :
                          provider_fetches[i][2] = k}) <= 1

\* C29: a refresh of one key changes the entry of that key only: the
\* write of a refresh leaves the entry of every other key of the file as
\* it was, also when two runs refresh two keys side by side.
C29_RefreshChangesOneKey ==
    [][\A p \in Runs :
          (Store(p) /\ cache_file # NoFile) =>
              \A k \in Keys \ {fetcher[p].key} :
                  cache_file'[k] = cache_file[k]]_vars

\* the provider calls of a complete run of rollback_instance.py
RollbackCalls ==
    <<"stop", "create_volume", "detach_volume", "attach_volume", "modify",
      "start", "delete_volume", "delete_snapshot">>

\* C27: in a run of rollback_instance.py the provider calls come in the
\* order stop, create volume, detach, attach, modify, start, cleanup; the
\* root volume is detached and replaced only while the instance is stopped,
\* and the old volume and the snapshot are deleted only after the attach
\* and the start.
C27_RollbackCallOrder ==
    LastScript = "rollback" =>
        /\ Len(calls) <= Len(RollbackCalls)
        /\ calls = SubSeq(RollbackCalls, 1, Len(calls))
        /\ (Count(calls, "detach_volume") = 1 /\ Count(calls, "start") = 0)
              => inst_state = "stopped"
        /\ (rb.old_volume_id # NoVolume /\ rb.old_volume_id \in deleted)
              => /\ Count(calls, "attach_volume") = 1
                 /\ Count(calls, "start") = 1
                 /\ inst_state = "running"

\* a rollback has run to its end, cleanup included
C27_Witness ==
    /\ LastScript = "rollback"
    /\ LastExited(0)
    /\ calls = RollbackCalls

\* C30: a rollback run that exits with an error has changed nothing: it
\* has made no provider call (no stop, no volume created, detached or
\* attached) and the instance type is as it was.
C30_FailedRollbackChangesNothing ==
    (LastScript = "rollback" /\ LastExited(1)) =>
        /\ calls = <<>>
        /\ inst_type = log[Len(log)].before

\* -------------------------------------------------------------------------
\* C31: a resize request for the type the instance already has
\* -------------------------------------------------------------------------

\* the entry of the log of the run in progress, or of the last run
LastRun == log[Len(log)]

\* the last script started is a resize variant
LastRunIsResize == Len(log) > 0 /\ LastRun.script \in ResizeScripts

\* the request of the last resize run names the type the instance had
\* when the run started, which is the type describe_instances returns to it
EqualTarget == LastRunIsResize /\ new_type = LastRun.before

\* C31: in every resize variant, a request whose target type equals the
\* instance's current type performs no stop, modify or start call and
\* leaves rollback.json unchanged, so rollback.json never records a
\* previous_instance_type equal to the type that the recording run set.
C31_EqualTargetIsNoOp ==
    /\ EqualTarget =>
          /\ Count(calls, "stop") = 0
          /\ Count(calls, "modify") = 0
          /\ Count(calls, "start") = 0
          /\ rollback_file = LastRun.rollback_before
    /\ ( /\ LastRunIsResize
         /\ Count(calls, "write_rollback") > 0
         /\ Count(calls, "start") > 0 )
          => rollback_file.previous_instance_type # inst_type

=============================================================================
